---- MODULE Spec2Model ----
(***************************************************************************)
(* A model of the practical-fsd guide's example application                *)
(* (examples/v1.0-basic) and of the code snippets of its guide:            *)
(*   - the mock course API getCourses / getCourse and the CourseList       *)
(*     feature that loads from it (simulated network calls on timers);     *)
(*   - the import graph of the example application and of the guide's      *)
(*     app/ snippets, checked against the guide's layer rules;             *)
(*   - the documented route handler GET and its getCourseList delegate;    *)
(*   - the page views with their Header widget, and the EnrollmentButton   *)
(*     feature (component state, event handlers and what they render).     *)
(***************************************************************************)
EXTENDS Integers, Sequences, FiniteSets, TLC

VARIABLES
    calls,        \* getCourses / getCourse invocations, in the order they were started
    courses,      \* CourseList: useState<Course[]>([])
    isLoading,    \* CourseList: useState(true)
    scanFile,     \* import scan: the file whose imports are being read (or NoFile)
    scanEdge,     \* import scan: the import statement last read (or NoEdge)
    scanDone,     \* import scan: the files whose imports have all been read
    routeReq,     \* route handler: the request and the environment it runs in
    routePc,      \* route handler: position of the GET call
    upstream,     \* route handler: the upstream request getCourseList sent (or NoFetch)
    response,     \* route handler: what GET returned to its caller (or NoResponse)
    listOutcome,  \* route handler: how the getCourseList call settled (None before)
    detail,       \* CourseDetailPage: its courseId prop and what useCourse returned last
    detailView,   \* CourseDetailPage: what its last render returned
    detailLog,    \* history: the kinds of view CourseDetailPage rendered, in order
    cnRun,        \* cn: an argument list and the values the calls on it returned
    page,         \* the page view that is mounted: "home" or "dashboard"
    isMobileMenuOpen, \* Header: useState(false)
    presses,      \* history: presses of the Header's toggle since mount or the last link click
    lastEvent,    \* history: the user's last event on the Header ("mount", "toggle" or a link)
    buttons,      \* EnrollmentButton instances by courseId: component state and history
    enrollLog     \* console: the course ids logged as enrolled, in order

vars == <<calls, courses, isLoading, scanFile, scanEdge, scanDone,
          routeReq, routePc, upstream, response, listOutcome,
          detail, detailView, detailLog, cnRun,
          page, isMobileMenuOpen, presses, lastEvent, buttons, enrollLog>>

callVars == <<calls, courses, isLoading>>
scanVars == <<scanFile, scanEdge, scanDone>>
routeVars == <<routeReq, routePc, upstream, response, listOutcome>>
uiVars == <<page, isMobileMenuOpen, presses, lastEvent, buttons, enrollLog>>
detailVars == <<detail, detailView, detailLog>>

(***************************************************************************)
(* Bounds of the model.                                                    *)
(***************************************************************************)
MaxCalls == 2        \* calls started in one behaviour
MaxLimit == 4        \* largest limit a caller passes (the mock list has 3 records)
MaxEffectRuns == 2   \* runs of CourseList's mount effect (React StrictMode runs it twice)
MaxScanned == 2      \* files one import scan completes
MaxPresses == 3      \* presses of the Header's toggle between two link clicks
MaxClicks == 2       \* clicks a user makes on one EnrollmentButton
MaxRenders == 3      \* renders of CourseDetailPage in one behaviour
MaxArgs == 3         \* arguments of one call of cn

(***************************************************************************)
(* Optional values: an absent (undefined) field is <<>>, a present one is  *)
(* <<v>>.  null, as getCourse returns it, is also <<>>.                    *)
(***************************************************************************)
None == <<>>
Some(v) == <<v>>

(***************************************************************************)
(* entities/course/api/getCourses.ts                                       *)
(***************************************************************************)
mockCourses ==
    << [id |-> "1", title |-> "React Fundamentals",
        description |-> "Learn the basics of React from scratch",
        instructor |-> "John Doe", duration |-> 120, level |-> "beginner",
        thumbnail |-> "/images/react-fundamentals.jpg",
        price |-> 49000, enrolled |-> 1234],
       [id |-> "2", title |-> "Advanced TypeScript",
        description |-> "Master TypeScript type system",
        instructor |-> "Jane Smith", duration |-> 180, level |-> "advanced",
        thumbnail |-> "/images/typescript-advanced.jpg",
        price |-> 79000, enrolled |-> 567],
       [id |-> "3", title |-> "Next.js Full Course",
        description |-> "Build production-ready apps with Next.js",
        instructor |-> "Mike Johnson", duration |-> 240, level |-> "intermediate",
        thumbnail |-> "/images/nextjs-course.jpg",
        price |-> 89000, enrolled |-> 890] >>

\* The fields of CourseListParams; each is optional.
Levels == {None, Some(""), Some("beginner"), Some("intermediate"),
           Some("advanced"), Some("expert")}
Limits == {None} \cup {Some(n) : n \in 0..MaxLimit}
Categories == {None, Some("frontend")}

\* getCourses(params?): params itself may be undefined (<<>>).
ParamObjects == [level : Levels, limit : Limits, category : Categories]
AllParams == {None} \cup {Some(p) : p \in ParamObjects}

\* params?.field
OptChain(params, field) == IF params = None THEN None ELSE params[1][field]

\* JavaScript truthiness of an optional string: undefined and '' are falsy.
TruthyString(o) == o # None /\ o[1] # ""

\* JavaScript truthiness of an optional number: undefined and 0 are falsy.
TruthyNumber(o) == o # None /\ o[1] # 0

\* Array.prototype.filter(course => course.level === level)
RECURSIVE FilterLevel(_, _)
FilterLevel(list, level) ==
    IF list = <<>> THEN <<>>
    ELSE IF Head(list).level = level
         THEN <<Head(list)>> \o FilterLevel(Tail(list), level)
         ELSE FilterLevel(Tail(list), level)

\* Array.prototype.slice(0, n) for an integer n >= 0
Slice(list, n) == SubSeq(list, 1, IF n < Len(list) THEN n ELSE Len(list))

\* The body of getCourses after the delay: filter by level, then cut to limit.
ApplyLevel(list, params) ==
    IF TruthyString(OptChain(params, "level"))
    THEN FilterLevel(list, OptChain(params, "level")[1])
    ELSE list

ApplyLimit(list, params) ==
    IF TruthyNumber(OptChain(params, "limit"))
    THEN Slice(list, OptChain(params, "limit")[1])
    ELSE list

\* A variant that cuts to the limit before it filters by level.
getCoursesLimitFirst(params) == ApplyLevel(ApplyLimit(mockCourses, params), params)

\* A variant that also filters by category; no record of the mock list has one.
getCoursesByCategory(params) ==
    IF TruthyString(OptChain(params, "category"))
    THEN <<>>
    ELSE ApplyLimit(ApplyLevel(mockCourses, params), params)

getCoursesValue(params) == ApplyLimit(ApplyLevel(mockCourses, params), params)

\* A variant of find that counts the lookup on the record it returns.
RECURSIVE FindCounting(_, _)
FindCounting(list, id) ==
    IF list = <<>> THEN None
    ELSE IF Head(list).id = id THEN Some([Head(list) EXCEPT !.enrolled = @ + 1])
         ELSE FindCounting(Tail(list), id)

\* courses.find(course => course.id === id) || null
RECURSIVE Find(_, _)
Find(list, id) ==
    IF list = <<>> THEN None
    ELSE IF Head(list).id = id THEN Some(Head(list)) ELSE Find(Tail(list), id)

\* A variant that searches a truncated list: getCourses({ limit: 2 }).
getCourseOfFirstTwo(id) ==
    Find(getCoursesValue(Some([level |-> None, limit |-> Some(2), category |-> None])), id)

getCourseValue(id) == Find(getCoursesValue(None), id)

\* The ids getCourse is asked for: the three of the mock list, an unknown one, ''.
Ids == {"1", "2", "3", "4", ""}

\* features/course-list/ui/CourseList.tsx: getCourses({ limit: 6 })
CourseListLimit == 6
CourseListParams == Some([level |-> None, limit |-> Some(CourseListLimit), category |-> None])

(***************************************************************************)
(* Calls in flight.  A call sleeps on its own setTimeout, is woken when    *)
(* the timer fires (the awaited promise resolves) and is resolved when its *)
(* continuation has run to the return statement.                           *)
(***************************************************************************)
NewCall(kind, params, id, owner) ==
    [kind |-> kind, params |-> params, id |-> id, owner |-> owner,
     state |-> "sleeping", value |-> None]

\* What the caller of a call gets once the body after the await has run.
ReturnValue(c) ==
    IF c.kind = "getCourses" THEN getCoursesValue(c.params) ELSE getCourseValue(c.id)

\* The inputs of the calls started while others are in flight.
ConcurrentParams ==
    {None} \cup {Some([level |-> l, limit |-> k, category |-> None]) :
                    l \in {None, Some("advanced")}, k \in {None, Some(0), Some(1)}}
ConcurrentIds == {"2", "4"}

\* A caller invokes getCourses(params): the function runs up to its await.
CallGetCourses(p) ==
    /\ Len(calls) < MaxCalls
    /\ calls' = Append(calls, NewCall("getCourses", p, "", "caller"))
    /\ UNCHANGED <<courses, isLoading>>
    /\ UNCHANGED <<scanVars, routeVars, uiVars, detailVars, cnRun>>

\* A caller invokes getCourse(id): it calls getCourses() and awaits it.
CallGetCourse(id) ==
    /\ Len(calls) < MaxCalls
    /\ calls' = Append(calls, NewCall("getCourse", None, id, "caller"))
    /\ UNCHANGED <<courses, isLoading>>
    /\ UNCHANGED <<scanVars, routeVars, uiVars, detailVars, cnRun>>

\* The loads CourseList has started.
Loads == {i \in DOMAIN calls : calls[i].owner = "CourseList"}

\* CourseList's mount effect runs loadCourses up to its await (HomePage is the view
\* that mounts CourseList).  The effect has no
\* dependencies: it runs on mount, and StrictMode runs it again in the same commit,
\* before any timer can fire.
CourseListEffect ==
    /\ page = "home"
    /\ Len(calls) < MaxCalls
    /\ Cardinality(Loads) < MaxEffectRuns
    /\ \A i \in Loads : calls[i].state = "sleeping"
    /\ isLoading' = TRUE
    /\ calls' = Append(calls, NewCall("getCourses", CourseListParams, "", "CourseList"))
    /\ UNCHANGED courses
    /\ UNCHANGED <<scanVars, routeVars, uiVars, detailVars, cnRun>>

\* A variant in which the timer's callback does not resolve the awaited promise.
TimerFireLost(i) ==
    /\ i \in DOMAIN calls
    /\ calls[i].state = "sleeping"
    /\ UNCHANGED vars

\* The 500 ms timer of call i fires: setTimeout's callback resolves the awaited promise.
TimerFire(i) ==
    /\ i \in DOMAIN calls
    /\ calls[i].state = "sleeping"
    /\ calls' = [calls EXCEPT ![i].state = "woken"]
    /\ UNCHANGED <<courses, isLoading>>
    /\ UNCHANGED <<scanVars, routeVars, uiVars, detailVars, cnRun>>

\* A variant in which the arguments live in one variable all calls share: the
\* continuation reads the arguments of the call started last.
ResumeSharedArguments(i) ==
    /\ i \in DOMAIN calls
    /\ calls[i].state = "woken"
    /\ calls' = [calls EXCEPT ![i].state = "resolved",
                              ![i].value = ReturnValue(calls[Len(calls)])]
    /\ IF calls[i].owner = "CourseList"
       THEN courses' = ReturnValue(calls[Len(calls)]) /\ isLoading' = FALSE
       ELSE UNCHANGED <<courses, isLoading>>
    /\ UNCHANGED <<scanVars, routeVars, uiVars, detailVars, cnRun>>

\* A variant in which loadCourses leaves out setIsLoading(false).
ResumeKeepsLoading(i) ==
    /\ i \in DOMAIN calls
    /\ calls[i].state = "woken"
    /\ calls' = [calls EXCEPT ![i].state = "resolved", ![i].value = ReturnValue(calls[i])]
    /\ IF calls[i].owner = "CourseList"
       THEN courses' = ReturnValue(calls[i]) /\ UNCHANGED isLoading
       ELSE UNCHANGED <<courses, isLoading>>
    /\ UNCHANGED <<scanVars, routeVars, uiVars, detailVars, cnRun>>

\* The continuation of call i runs to its return; a CourseList load then runs the
\* rest of loadCourses (setCourses(data); setIsLoading(false)) in the same turn.
Resume(i) ==
    /\ i \in DOMAIN calls
    /\ calls[i].state = "woken"
    /\ calls' = [calls EXCEPT ![i].state = "resolved", ![i].value = ReturnValue(calls[i])]
    /\ IF calls[i].owner = "CourseList"
       THEN courses' = ReturnValue(calls[i]) /\ isLoading' = FALSE
       ELSE UNCHANGED <<courses, isLoading>>
    /\ UNCHANGED <<scanVars, routeVars, uiVars, detailVars, cnRun>>

InitCalls ==
    /\ calls = <<>>
    /\ courses = <<>>
    /\ isLoading = TRUE

(***************************************************************************)
(* The import graph.  A path is the sequence of its segments below the     *)
(* application's src/ directory; an import statement is the importing file *)
(* and its specifier: '@/a/b' (alias of src/a/b), './a' or '../a'          *)
(* (relative to the importing file's directory) or a package name.         *)
(***************************************************************************)
File(corpus, path, line) == [corpus |-> corpus, path |-> path, line |-> line]
Import(file, kind, path, line) == [file |-> file, kind |-> kind, path |-> path, line |-> line]

\* examples/v1.0-basic/src: the files of the example application.
ButtonFile == File("example", <<"shared", "components", "common", "Button.tsx">>, 1)
CnFile == File("example", <<"shared", "lib", "cn.ts">>, 1)
DashboardPageFile == File("example", <<"views", "dashboard", "ui", "DashboardPage.tsx">>, 1)
HomePageFile == File("example", <<"views", "home", "ui", "HomePage.tsx">>, 1)
RootLayoutFile == File("example", <<"app", "layout.tsx">>, 1)
HomeRouteFile == File("example", <<"app", "page.tsx">>, 1)
DashboardRouteFile == File("example", <<"app", "dashboard", "page.tsx">>, 1)
EnrollmentButtonFile ==
    File("example", <<"features", "course-enrollment", "ui", "EnrollmentButton.tsx">>, 1)
CourseListFile == File("example", <<"features", "course-list", "ui", "CourseList.tsx">>, 1)
CourseTypesFile == File("example", <<"entities", "course", "model", "types.ts">>, 1)
GetCoursesFile == File("example", <<"entities", "course", "api", "getCourses.ts">>, 1)
CourseIndexFile == File("example", <<"entities", "course", "index.ts">>, 1)
HeaderFile == File("example", <<"widgets", "header", "ui", "Header.tsx">>, 1)
FooterFile == File("example", <<"widgets", "footer", "ui", "Footer.tsx">>, 1)

\* A variant in which the shared Button reads the course entity.
ButtonImportsEntity ==
    {Import(ButtonFile, "package", <<"react">>, 3),
     Import(ButtonFile, "alias", <<"entities", "course">>, 4)}

ButtonImports == {Import(ButtonFile, "package", <<"react">>, 3)}

DashboardPageImports ==
    {Import(DashboardPageFile, "alias", <<"widgets", "header">>, 5),
     Import(DashboardPageFile, "alias", <<"widgets", "footer">>, 6)}

HomePageImports ==
    {Import(HomePageFile, "alias", <<"widgets", "header">>, 6),
     Import(HomePageFile, "alias", <<"widgets", "footer">>, 7),
     Import(HomePageFile, "alias", <<"features", "course-list">>, 8)}

RootLayoutImports ==
    {Import(RootLayoutFile, "package", <<"next">>, 2),
     Import(RootLayoutFile, "relative", <<".", "globals.css">>, 3)}

HomeRouteImports == {Import(HomeRouteFile, "alias", <<"views", "home">>, 85)}

\* A variant in which the route file composes a widget itself.
DashboardRouteImportsWidget ==
    {Import(DashboardRouteFile, "alias", <<"views", "dashboard">>, 3),
     Import(DashboardRouteFile, "alias", <<"widgets", "header">>, 4)}

DashboardRouteImports ==
    {Import(DashboardRouteFile, "alias", <<"views", "dashboard">>, 3),
     Import(DashboardRouteFile, "package", <<"next">>, 4)}

EnrollmentButtonImports ==
    {Import(EnrollmentButtonFile, "package", <<"react">>, 5),
     Import(EnrollmentButtonFile, "alias", <<"shared", "components", "common", "Button">>, 6)}

\* A variant in which CourseList reaches into the entity's ui segment.
CourseListImportsSegment ==
    {Import(CourseListFile, "package", <<"react">>, 5),
     Import(CourseListFile, "alias", <<"entities", "course", "ui", "CourseCard">>, 6),
     Import(CourseListFile, "alias", <<"entities", "course">>, 7)}

CourseListImports ==
    {Import(CourseListFile, "package", <<"react">>, 5),
     Import(CourseListFile, "alias", <<"entities", "course">>, 6),
     Import(CourseListFile, "alias", <<"entities", "course">>, 7)}

GetCoursesImports == {Import(GetCoursesFile, "relative", <<"..", "model", "types">>, 24)}

CourseIndexImports ==
    {Import(CourseIndexFile, "relative", <<".", "ui", "CourseCard">>, 4),
     Import(CourseIndexFile, "relative", <<".", "api", "getCourses">>, 5),
     Import(CourseIndexFile, "relative", <<".", "model", "types">>, 6)}

\* A variant in which the header widget embeds the footer widget.
HeaderImportsFooter ==
    {Import(HeaderFile, "package", <<"react">>, 5),
     Import(HeaderFile, "alias", <<"widgets", "footer">>, 6)}

HeaderImports == {Import(HeaderFile, "package", <<"react">>, 5)}

ExampleFiles ==
    {ButtonFile, CnFile, DashboardPageFile, HomePageFile, RootLayoutFile, HomeRouteFile,
     DashboardRouteFile, EnrollmentButtonFile, CourseListFile, CourseTypesFile,
     GetCoursesFile, CourseIndexFile, HeaderFile, FooterFile}

ExampleImports ==
    ButtonImports \cup DashboardPageImports \cup HomePageImports \cup RootLayoutImports
    \cup HomeRouteImports \cup DashboardRouteImports \cup EnrollmentButtonImports
    \cup CourseListImports \cup GetCoursesImports \cup CourseIndexImports \cup HeaderImports

\* docs/v1.0/en/app-router-integration.md: the app/ files the guide shows as the
\* pattern to follow; line is the line of the snippet's path comment.
GuideRootLayoutFile == File("guide", <<"app", "layout.tsx">>, 79)
GuideSectionLayoutFile == File("guide", <<"app", "dashboard", "layout.tsx">>, 120)
GuideCoursePageFile == File("guide", <<"app", "courses", "[id]", "page.tsx">>, 173)
GuideRouteHandlerFile == File("guide", <<"app", "api", "courses", "route.ts">>, 288)
GuideLoadingFile == File("guide", <<"app", "loading.tsx">>, 348)
GuideErrorFile == File("guide", <<"app", "error.tsx">>, 360)
GuideParallelLayoutFile == File("guide", <<"app", "dashboard", "layout.tsx">>, 438)
GuideInterceptedPageFile ==
    File("guide", <<"app", "dashboard", "@modal", "(..)login", "page.tsx">>, 457)

GuideRootLayoutImports ==
    {Import(GuideRootLayoutFile, "package", <<"next">>, 81),
     Import(GuideRootLayoutFile, "package", <<"next", "font", "google">>, 82),
     Import(GuideRootLayoutFile, "relative", <<".", "globals.css">>, 83)}

GuideSectionLayoutImports ==
    {Import(GuideSectionLayoutFile, "alias", <<"widgets", "layouts", "dashboard">>, 122)}

GuideCoursePageImports ==
    {Import(GuideCoursePageFile, "alias", <<"views", "course-detail">>, 175),
     Import(GuideCoursePageFile, "alias", <<"entities", "course", "api">>, 176),
     Import(GuideCoursePageFile, "package", <<"next">>, 177)}

GuideRouteHandlerImports ==
    {Import(GuideRouteHandlerFile, "package", <<"next", "server">>, 290),
     Import(GuideRouteHandlerFile, "alias", <<"entities", "course", "api">>, 291)}

GuideInterceptedPageImports ==
    {Import(GuideInterceptedPageFile, "alias", <<"views", "login-modal">>, 459)}

GuideFiles ==
    {GuideRootLayoutFile, GuideSectionLayoutFile, GuideCoursePageFile, GuideRouteHandlerFile,
     GuideLoadingFile, GuideErrorFile, GuideParallelLayoutFile, GuideInterceptedPageFile}

GuideImports ==
    GuideRootLayoutImports \cup GuideSectionLayoutImports \cup GuideCoursePageImports
    \cup GuideRouteHandlerImports \cup GuideInterceptedPageImports

Files == ExampleFiles \cup GuideFiles
Imports == ExampleImports \cup GuideImports
ImportsOf(f) == {e \in Imports : e.file = f}

\* docs/v1.0/en/six-layers.md: the layers, from the routing layer down.
Layers == {"app", "views", "widgets", "features", "entities", "shared"}
SlicedLayers == {"views", "widgets", "features", "entities"}

Rank(layer) ==
    CASE layer = "app" -> 6
      [] layer = "views" -> 5
      [] layer = "widgets" -> 4
      [] layer = "features" -> 3
      [] layer = "entities" -> 2
      [] layer = "shared" -> 1

\* The directory of a file: its path without the file name.
DirOf(path) == SubSeq(path, 1, Len(path) - 1)

\* Path resolution of a relative specifier: '.' stays, '..' goes one directory up.
RECURSIVE Join(_, _)
Join(dir, rel) ==
    IF rel = <<>> THEN dir
    ELSE IF Head(rel) = "." THEN Join(dir, Tail(rel))
    ELSE IF Head(rel) = ".." THEN Join(DirOf(dir), Tail(rel))
    ELSE Join(Append(dir, Head(rel)), Tail(rel))

\* The module an import statement resolves to, below src/ (<<>> for a package).
Resolve(e) ==
    CASE e.kind = "alias" -> e.path
      [] e.kind = "relative" -> Join(DirOf(e.file.path), e.path)
      [] e.kind = "package" -> <<>>

LayerOf(path) == IF path # <<>> /\ path[1] \in Layers THEN path[1] ELSE "external"

\* The slice a path lies in: layer and slice name, for the layers that have slices.
SliceOf(path) ==
    IF LayerOf(path) \in SlicedLayers /\ Len(path) >= 2 THEN <<path[1], path[2]>> ELSE <<>>

NoFile == File("none", <<>>, 0)
NoEdge == Import(NoFile, "none", <<>>, 0)

\* The scan opens a file it has not completed.
OpenFile(f) ==
    /\ scanFile = NoFile
    /\ f \notin scanDone
    /\ Cardinality(scanDone) < MaxScanned
    /\ scanFile' = f
    /\ scanEdge' = NoEdge
    /\ UNCHANGED scanDone
    /\ UNCHANGED <<callVars, routeVars, uiVars, detailVars, cnRun>>

\* The scan reads one import statement of the open file.
ReadImport(e) ==
    /\ scanFile # NoFile
    /\ e \in ImportsOf(scanFile)
    /\ scanEdge' = e
    /\ UNCHANGED <<scanFile, scanDone>>
    /\ UNCHANGED <<callVars, routeVars, uiVars, detailVars, cnRun>>

\* The scan is through with the open file.
CloseFile ==
    /\ scanFile # NoFile
    /\ scanDone' = scanDone \cup {scanFile}
    /\ scanFile' = NoFile
    /\ scanEdge' = NoEdge
    /\ UNCHANGED <<callVars, routeVars, uiVars, detailVars, cnRun>>

InitScan ==
    /\ scanFile = NoFile
    /\ scanEdge = NoEdge
    /\ scanDone = {}

(***************************************************************************)
(* docs/v1.0/en/app-router-integration.md, "Route Handlers": the handler   *)
(* GET of app/api/courses/route.ts and getCourseList, which it awaits.     *)
(***************************************************************************)
\* searchParams.get('category'): null when the query has no such parameter.
QueryCategories == {None, Some(""), Some("frontend"), Some("backend")}

\* What the upstream API can answer: a status, and a body that parses as JSON
\* (Some(list)) or does not (None).
UpstreamStatuses == {200, 201, 301, 404, 500, 503}
UpstreamBodies == {None, Some(<<>>), Some(SubSeq(mockCourses, 1, 1)), Some(mockCourses)}
UpstreamReplies == [status : UpstreamStatuses, body : UpstreamBodies]

\* Response.ok: the status is in the range 200-299.
ResponseOk(reply) == reply.status >= 200 /\ reply.status <= 299

NoRequest == [category |-> None, baseUrlOk |-> FALSE, received |-> FALSE]
NoFetch == [sent |-> FALSE, query |-> None, reply |-> None]
NoResponse == [status |-> 0, body |-> <<"none">>]

\* NextResponse.json(courses): status 200, the value as the JSON body.
JsonResponse(value) == [status |-> 200, body |-> <<"json", value>>]

\* NextResponse.json({ error: 'Failed to fetch courses' }, { status: 500 })
ErrorResponse == [status |-> 500, body |-> <<"error", "Failed to fetch courses">>]

\* The outcome of the try block: the courses, or the exception thrown in it.
Returned(value) == [ok |-> TRUE, value |-> value, error |-> ""]
Thrown(error) == [ok |-> FALSE, value |-> <<>>, error |-> error]

\* A variant that handles the error getCourseList throws itself and rethrows the rest.
CaughtFetchErrorOnly(error) == error = "Failed to fetch courses"

\* catch (error): the clause has no condition, it catches every exception.
Caught(error) == TRUE

\* getCourseList settles with an outcome, and GET leaves its try statement with it.
Finish(outcome) ==
    /\ listOutcome' = Some(outcome)
    /\ IF outcome.ok
       THEN response' = JsonResponse(outcome.value) /\ routePc' = "done"
       ELSE IF Caught(outcome.error)
            THEN response' = ErrorResponse /\ routePc' = "done"
            ELSE response' = NoResponse /\ routePc' = "threw"

\* A variant that sets the query parameter whenever params.category is not null.
UpstreamQueryNotNull(category) == category

\* getCourseList sets the query parameter when params.category is truthy.
UpstreamQuery(category) == IF TruthyString(category) THEN category ELSE None

\* A request arrives: GET reads the category and calls getCourseList, which builds
\* the upstream URL (new URL throws when API_BASE_URL is no URL) and calls fetch.
ReceiveGET(category, baseUrlOk) ==
    /\ routePc = "idle"
    /\ routeReq' = [category |-> category, baseUrlOk |-> baseUrlOk, received |-> TRUE]
    /\ IF baseUrlOk
       THEN /\ upstream' = [sent |-> TRUE, query |-> UpstreamQuery(category), reply |-> None]
            /\ routePc' = "fetching"
            /\ UNCHANGED <<response, listOutcome>>
       ELSE /\ Finish(Thrown("Invalid URL"))
            /\ UNCHANGED upstream
    /\ UNCHANGED <<callVars, scanVars, uiVars, detailVars, cnRun>>

\* fetch rejects: the upstream could not be reached.
FetchFails ==
    /\ routePc = "fetching"
    /\ Finish(Thrown("fetch failed"))
    /\ UNCHANGED <<routeReq, upstream>>
    /\ UNCHANGED <<callVars, scanVars, uiVars, detailVars, cnRun>>

\* fetch resolves: getCourseList throws when the response is not ok, and calls
\* response.json() otherwise.
FetchSettles(reply) ==
    /\ routePc = "fetching"
    /\ upstream' = [upstream EXCEPT !.reply = Some(reply)]
    /\ IF ResponseOk(reply)
       THEN routePc' = "parsing" /\ UNCHANGED <<response, listOutcome>>
       ELSE Finish(Thrown("Failed to fetch courses"))
    /\ UNCHANGED routeReq
    /\ UNCHANGED <<callVars, scanVars, uiVars, detailVars, cnRun>>

\* response.json() settles: the parsed body is getCourseList's value, a body that
\* is no JSON rejects with a SyntaxError.
BodyParsed ==
    /\ routePc = "parsing"
    /\ LET body == upstream.reply[1].body
       IN IF body # None THEN Finish(Returned(body[1]))
                         ELSE Finish(Thrown("Unexpected token"))
    /\ UNCHANGED <<routeReq, upstream>>
    /\ UNCHANGED <<callVars, scanVars, uiVars, detailVars, cnRun>>

InitRoute ==
    /\ routeReq = NoRequest
    /\ routePc = "idle"
    /\ upstream = NoFetch
    /\ response = NoResponse
    /\ listOutcome = None

(***************************************************************************)
(* widgets/header/ui/Header.tsx                                            *)
(***************************************************************************)
\* The links of the mobile menu, in document order.
MobileLinks == <<"Home", "Dashboard", "GitHub">>

\* What Header renders: the toggle's icon, and the mobile navigation only when
\* isMobileMenuOpen is true.
HeaderRender(open) ==
    [type |-> "Header",
     icon |-> IF open THEN "close" ELSE "menu",
     mobileNav |-> IF open THEN MobileLinks ELSE <<>>]

\* A variant of the toggle that only ever opens: setIsMobileMenuOpen(true).
ToggleMenuOpens ==
    /\ presses < MaxPresses
    /\ isMobileMenuOpen' = TRUE
    /\ presses' = presses + 1
    /\ lastEvent' = "toggle"
    /\ UNCHANGED <<page, buttons, enrollLog>>
    /\ UNCHANGED <<callVars, scanVars, routeVars, detailVars, cnRun>>

\* The user presses the toggle button: setIsMobileMenuOpen(!isMobileMenuOpen).
ToggleMenu ==
    /\ presses < MaxPresses
    /\ isMobileMenuOpen' = ~isMobileMenuOpen
    /\ presses' = presses + 1
    /\ lastEvent' = "toggle"
    /\ UNCHANGED <<page, buttons, enrollLog>>
    /\ UNCHANGED <<callVars, scanVars, routeVars, detailVars, cnRun>>

\* A variant of the links without their onClick: the menu stays as it is.
ClickMobileLinkStaysOpen(link) ==
    /\ \E i \in DOMAIN HeaderRender(isMobileMenuOpen).mobileNav :
          HeaderRender(isMobileMenuOpen).mobileNav[i] = link
    /\ presses' = 0
    /\ lastEvent' = link
    /\ UNCHANGED <<page, isMobileMenuOpen, buttons, enrollLog>>
    /\ UNCHANGED <<callVars, scanVars, routeVars, detailVars, cnRun>>

\* The user clicks a link of the mobile menu, which is there to click only when the
\* menu is rendered: setIsMobileMenuOpen(false).
ClickMobileLink(link) ==
    /\ \E i \in DOMAIN HeaderRender(isMobileMenuOpen).mobileNav :
          HeaderRender(isMobileMenuOpen).mobileNav[i] = link
    /\ isMobileMenuOpen' = FALSE
    /\ presses' = 0
    /\ lastEvent' = link
    /\ UNCHANGED <<page, buttons, enrollLog>>
    /\ UNCHANGED <<callVars, scanVars, routeVars, detailVars, cnRun>>

(***************************************************************************)
(* features/course-list/ui/CourseList.tsx, views/home/ui/HomePage.tsx,     *)
(* views/dashboard/ui/DashboardPage.tsx: what the components render.       *)
(***************************************************************************)
RECURSIVE IdsOf(_)
IdsOf(list) == IF list = <<>> THEN <<>> ELSE <<Head(list).id>> \o IdsOf(Tail(list))

\* CourseList: three placeholder blocks while loading, else one CourseCard per
\* course, keyed by its id.
CourseListRender(loading, list) ==
    IF loading
    THEN [type |-> "CourseList", skeletons |-> 3, cards |-> <<>>, records |-> <<>>]
    ELSE [type |-> "CourseList", skeletons |-> 0, cards |-> IdsOf(list), records |-> list]

FooterRender == [type |-> "Footer"]

\* The children of a page's root element, in document order.
\* A variant of HomePage that composes the header and the course list only.
HomePageRenderNoFooter ==
    << HeaderRender(isMobileMenuOpen),
       [type |-> "main",
        children |-> <<"hero", CourseListRender(isLoading, courses), "highlights">>] >>

HomePageRender ==
    << HeaderRender(isMobileMenuOpen),
       [type |-> "main",
        children |-> <<"hero", CourseListRender(isLoading, courses), "highlights">>],
       FooterRender >>

DashboardPageRender ==
    << HeaderRender(isMobileMenuOpen),
       [type |-> "main", children |-> <<"page header", "stats", "progress">>],
       FooterRender >>

PageRender == IF page = "home" THEN HomePageRender ELSE DashboardPageRender

(***************************************************************************)
(* features/course-enrollment/ui/EnrollmentButton.tsx and                  *)
(* shared/components/common/Button.tsx.  One EnrollmentButton is mounted   *)
(* per course id; pending counts the handleEnroll invocations that wait    *)
(* for their 1000 ms timer, clicks the clicks the user has made on it.     *)
(***************************************************************************)
ButtonIds == {"1", "2"}

IdleButton == [isEnrolling |-> FALSE, isEnrolled |-> FALSE, pending |-> 0, clicks |-> 0]

\* Button: the variant (primary unless given), and the rest of the props spread on
\* the <button> element.
ButtonRender(variant, disabled, onClick, children) ==
    [variant |-> variant, disabled |-> disabled, onClick |-> onClick, label |-> children]

\* The label of the enrolled button: a check mark (U+2713, written out) and 'Enrolled'.
EnrolledLabel == "U+2713 Enrolled"

\* A variant that does not pass disabled on while enrolling.
EnrollmentButtonRenderEnabled(b) ==
    IF b.isEnrolled
    THEN ButtonRender("secondary", TRUE, FALSE, EnrolledLabel)
    ELSE ButtonRender("primary", FALSE, TRUE,
                      IF b.isEnrolling THEN "Enrolling..." ELSE "Enroll Now")

EnrollmentButtonRender(b) ==
    IF b.isEnrolled
    THEN ButtonRender("secondary", TRUE, FALSE, EnrolledLabel)
    ELSE ButtonRender("primary", b.isEnrolling, TRUE,
                      IF b.isEnrolling THEN "Enrolling..." ELSE "Enroll Now")

\* A variant in which the disabled attribute does not reach the element.
ClickDeliveredWhenDisabled(element) == element.onClick

\* A click on a <button> element reaches its onClick handler unless the element is
\* disabled.
ClickDelivered(element) == element.onClick /\ ~element.disabled

\* The user clicks the button of instance id; when the click is delivered,
\* handleEnroll runs up to its await: setIsEnrolling(true), then the timer is set.
ClickEnroll(id) ==
    /\ buttons[id].clicks < MaxClicks
    /\ IF ClickDelivered(EnrollmentButtonRender(buttons[id]))
       THEN buttons' = [buttons EXCEPT ![id].clicks = @ + 1,
                                       ![id].isEnrolling = TRUE,
                                       ![id].pending = @ + 1]
       ELSE buttons' = [buttons EXCEPT ![id].clicks = @ + 1]
    /\ UNCHANGED <<page, isMobileMenuOpen, presses, lastEvent, enrollLog>>
    /\ UNCHANGED <<callVars, scanVars, routeVars, detailVars, cnRun>>

\* A variant that leaves out setIsEnrolling(false).
EnrollTimerFireKeepsEnrolling(id) ==
    /\ buttons[id].pending > 0
    /\ buttons' = [buttons EXCEPT ![id].isEnrolled = TRUE, ![id].pending = @ - 1]
    /\ enrollLog' = Append(enrollLog, id)
    /\ UNCHANGED <<page, isMobileMenuOpen, presses, lastEvent>>
    /\ UNCHANGED <<callVars, scanVars, routeVars, detailVars, cnRun>>

\* A variant in which the enrollment fails: the continuation throws before it sets
\* any state.
EnrollTimerFireThrows(id) ==
    /\ buttons[id].pending > 0
    /\ buttons' = [buttons EXCEPT ![id].pending = @ - 1]
    /\ UNCHANGED <<page, isMobileMenuOpen, presses, lastEvent, enrollLog>>
    /\ UNCHANGED <<callVars, scanVars, routeVars, detailVars, cnRun>>

\* A timer of instance id fires and handleEnroll runs on: setIsEnrolled(true),
\* setIsEnrolling(false) (one render for both) and the console.log.
EnrollTimerFire(id) ==
    /\ buttons[id].pending > 0
    /\ buttons' = [buttons EXCEPT ![id].isEnrolled = TRUE,
                                  ![id].isEnrolling = FALSE,
                                  ![id].pending = @ - 1]
    /\ enrollLog' = Append(enrollLog, id)
    /\ UNCHANGED <<page, isMobileMenuOpen, presses, lastEvent>>
    /\ UNCHANGED <<callVars, scanVars, routeVars, detailVars, cnRun>>

\* After mount: HomePage is the view of the start route.
InitUI ==
    /\ page = "home"
    /\ isMobileMenuOpen = FALSE
    /\ presses = 0
    /\ lastEvent = "mount"
    /\ buttons = [id \in ButtonIds |-> IdleButton]
    /\ enrollLog = <<>>

(***************************************************************************)
(* docs/v1.0/en/app-router-integration.md, "Per-Page Loading/Error":       *)
(* CourseDetailPage, a view that renders what the hook useCourse returns.  *)
(***************************************************************************)
\* error: null, or the Error of a failed load.
DetailErrors == {None, Some("Failed to load course")}

\* The course of the mock list with a given id, when there is one.
CoursesWithId(courseId) ==
    {Some(mockCourses[k]) : k \in {j \in DOMAIN mockCourses : mockCourses[j].id = courseId}}

\* What useCourse(courseId) can return.  The hook is not part of the repository:
\* each of course, isLoading and error may take any value, except that the page
\* reads course.title unguarded in its last branch, so a result that is neither
\* loading nor an error carries a course.
UseCourseResults(courseId) ==
    {r \in [course : {None} \cup CoursesWithId(courseId),
            isLoading : BOOLEAN, error : DetailErrors] :
        (~r.isLoading /\ r.error = None) => r.course # None}

\* A variant that looks at the error before it looks at isLoading.
CourseDetailPageRenderErrorFirst(r) ==
    IF r.error # None
    THEN [kind |-> "error", error |-> r.error, title |-> None]
    ELSE IF r.isLoading
         THEN [kind |-> "skeleton", error |-> None, title |-> None]
         ELSE [kind |-> "content", error |-> None, title |-> Some(r.course[1].title)]

\* CourseDetailPage: if (isLoading) the skeleton; if (error) the error view with
\* the error; else the content with course.title.
CourseDetailPageRender(r) ==
    IF r.isLoading
    THEN [kind |-> "skeleton", error |-> None, title |-> None]
    ELSE IF r.error # None
         THEN [kind |-> "error", error |-> r.error, title |-> None]
         ELSE [kind |-> "content", error |-> None, title |-> Some(r.course[1].title)]

\* The page as mounted with a course id and a first result of the hook.
MountedDetail(courseId, r) ==
    /\ detail = [courseId |-> courseId, result |-> r]
    /\ detailView = CourseDetailPageRender(r)
    /\ detailLog = <<CourseDetailPageRender(r).kind>>

\* The hook returns a new result and the page renders again.
UseCourseReturns(r) ==
    /\ Len(detailLog) < MaxRenders
    /\ r \in UseCourseResults(detail.courseId)
    /\ r # detail.result
    /\ detail' = [detail EXCEPT !.result = r]
    /\ detailView' = CourseDetailPageRender(r)
    /\ detailLog' = Append(detailLog, CourseDetailPageRender(r).kind)
    /\ UNCHANGED <<callVars, scanVars, routeVars, uiVars, cnRun>>

InitDetail == MountedDetail("1", [course |-> None, isLoading |-> TRUE, error |-> None])

(***************************************************************************)
(* shared/lib/cn.ts.  A string is the sequence of its characters.          *)
(***************************************************************************)
\* type ClassValue = string | number | boolean | undefined | null
Str(s) == [type |-> "string", str |-> s, num |-> 0, bool |-> FALSE]
Num(n) == [type |-> "number", str |-> <<>>, num |-> n, bool |-> FALSE]
NaN == [type |-> "NaN", str |-> <<>>, num |-> 0, bool |-> FALSE]
Bool(b) == [type |-> "boolean", str |-> <<>>, num |-> 0, bool |-> b]
Undefined == [type |-> "undefined", str |-> <<>>, num |-> 0, bool |-> FALSE]
Null == [type |-> "null", str |-> <<>>, num |-> 0, bool |-> FALSE]

\* The class values the calls are made with.
ClassValues ==
    {Str(<<>>), Str(<<"a">>), Num(0), Num(1), NaN, Bool(FALSE), Bool(TRUE), Undefined, Null}
ArgLists == UNION {[1..n -> ClassValues] : n \in 0..MaxArgs}

\* Boolean(value): '', 0, NaN, false, undefined and null are falsy.
ToBoolean(x) ==
    CASE x.type = "string" -> x.str # <<>>
      [] x.type = "number" -> x.num # 0
      [] x.type = "boolean" -> x.bool
      [] OTHER -> FALSE

\* The decimal digits of a natural number.
RECURSIVE Digits(_)
Digits(n) ==
    LET d == <<"0", "1", "2", "3", "4", "5", "6", "7", "8", "9">>
    IN IF n < 10 THEN <<d[n + 1]>> ELSE Digits(n \div 10) \o <<d[(n % 10) + 1]>>

\* How Array.prototype.join writes an element: undefined and null as nothing,
\* everything else by its string conversion.
StringOf(x) ==
    CASE x.type = "string" -> x.str
      [] x.type = "number" -> Digits(x.num)
      [] x.type = "NaN" -> <<"N", "a", "N">>
      [] x.type = "boolean" -> IF x.bool THEN <<"t", "r", "u", "e">>
                                         ELSE <<"f", "a", "l", "s", "e">>
      [] OTHER -> <<>>

\* A variant that drops only undefined and null: classes.filter(c => c != null).
RECURSIVE filterNotNull(_)
filterNotNull(classes) ==
    IF classes = <<>> THEN <<>>
    ELSE IF Head(classes).type \notin {"undefined", "null"}
         THEN <<Head(classes)>> \o filterNotNull(Tail(classes))
         ELSE filterNotNull(Tail(classes))

\* classes.filter(Boolean)
RECURSIVE filter(_)
filter(classes) ==
    IF classes = <<>> THEN <<>>
    ELSE IF ToBoolean(Head(classes))
         THEN <<Head(classes)>> \o filter(Tail(classes))
         ELSE filter(Tail(classes))

\* Array.prototype.join(separator)
RECURSIVE join(_, _)
join(list, separator) ==
    IF list = <<>> THEN <<>>
    ELSE IF Len(list) = 1 THEN StringOf(list[1])
    ELSE StringOf(Head(list)) \o separator \o join(Tail(list), separator)

\* cn(...classes): classes.filter(Boolean).join(' ')
cn(classes) == join(filter(classes), <<" ">>)

\* An argument list on which no call has been made yet.
NewCnRun(args) == [args |-> args, flat |-> None, inner |-> None, nested |-> None]

\* cn(...args)
CallCn ==
    /\ cnRun.flat = None
    /\ cnRun' = [cnRun EXCEPT !.flat = Some(cn(cnRun.args))]
    /\ UNCHANGED <<callVars, scanVars, routeVars, uiVars, detailVars>>

\* The inner call of cn(cn(a, b), c): cn of all arguments but the last.
CallCnInner ==
    /\ Len(cnRun.args) >= 2
    /\ cnRun.inner = None
    /\ cnRun' = [cnRun EXCEPT !.inner = Some(cn(SubSeq(cnRun.args, 1, Len(cnRun.args) - 1)))]
    /\ UNCHANGED <<callVars, scanVars, routeVars, uiVars, detailVars>>

\* The outer call of cn(cn(a, b), c): cn of the inner call's string and the last
\* argument.
CallCnOuter ==
    /\ cnRun.inner # None
    /\ cnRun.nested = None
    /\ cnRun' = [cnRun EXCEPT
                   !.nested = Some(cn(<<Str(cnRun.inner[1]), cnRun.args[Len(cnRun.args)]>>))]
    /\ UNCHANGED <<callVars, scanVars, routeVars, uiVars, detailVars>>

InitCn == cnRun = NewCnRun(<<>>)

(***************************************************************************)
(* Specifications.                                                         *)
(***************************************************************************)
Init == InitCalls /\ InitScan /\ InitRoute /\ InitUI /\ InitDetail /\ InitCn

\* Calls started by callers and by CourseList, in flight together.
Next ==
    \/ \E p \in ConcurrentParams : CallGetCourses(p)
    \/ \E id \in ConcurrentIds : CallGetCourse(id)
    \/ CourseListEffect
    \/ \E i \in 1..MaxCalls : TimerFire(i)
    \/ \E i \in 1..MaxCalls : Resume(i)

Spec == Init /\ [][Next]_vars

\* The timers of the host's event loop fire, and queued continuations run.
FairSpec ==
    /\ Spec
    /\ \A i \in 1..MaxCalls : WF_vars(TimerFire(i)) /\ WF_vars(Resume(i))

\* One call, for every argument the functions accept.
InitValue ==
    /\ \/ \E p \in AllParams : calls = <<NewCall("getCourses", p, "", "caller")>>
       \/ \E id \in Ids : calls = <<NewCall("getCourse", None, id, "caller")>>
    /\ courses = <<>>
    /\ isLoading = TRUE
    /\ InitScan /\ InitRoute /\ InitUI /\ InitDetail /\ InitCn

NextValue == TimerFire(1) \/ Resume(1)

SpecValue == InitValue /\ [][NextValue]_vars

\* The scan of the import statements.
NextImports ==
    \/ \E f \in Files : OpenFile(f)
    \/ \E e \in Imports : ReadImport(e)
    \/ CloseFile

SpecImports == Init /\ [][NextImports]_vars

\* One request to the route handler.
NextRoute ==
    \/ \E c \in QueryCategories, b \in BOOLEAN : ReceiveGET(c, b)
    \/ FetchFails
    \/ \E r \in UpstreamReplies : FetchSettles(r)
    \/ BodyParsed

SpecRoute == Init /\ [][NextRoute]_vars

\* A mounted page view with its Header and, on the home page, its CourseList, and
\* the EnrollmentButton instances, under the user's clicks and the timers.
InitPage ==
    /\ InitCalls /\ InitScan /\ InitRoute /\ InitDetail /\ InitCn
    /\ page \in {"home", "dashboard"}
    /\ isMobileMenuOpen = FALSE
    /\ presses = 0
    /\ lastEvent = "mount"
    /\ buttons = [id \in ButtonIds |-> IdleButton]
    /\ enrollLog = <<>>

NextUI ==
    \/ ToggleMenu
    \/ \E i \in DOMAIN MobileLinks : ClickMobileLink(MobileLinks[i])
    \/ \E id \in ButtonIds : ClickEnroll(id)
    \/ \E id \in ButtonIds : EnrollTimerFire(id)
    \/ CourseListEffect
    \/ \E i \in 1..MaxCalls : TimerFire(i)
    \/ \E i \in 1..MaxCalls : Resume(i)

SpecUI == InitPage /\ [][NextUI]_vars

\* The timers of the host's event loop fire, and queued continuations run.
FairSpecUI ==
    /\ SpecUI
    /\ \A id \in ButtonIds : WF_vars(EnrollTimerFire(id))
    /\ \A i \in 1..MaxCalls : WF_vars(TimerFire(i)) /\ WF_vars(Resume(i))

\* CourseDetailPage, mounted with any course id and any first result of the hook.
InitDetailPage ==
    /\ InitCalls /\ InitScan /\ InitRoute /\ InitUI /\ InitCn
    /\ \E courseId \in Ids : \E r \in UseCourseResults(courseId) : MountedDetail(courseId, r)

NextDetailPage ==
    \E r \in [course : {None} \cup {Some(mockCourses[k]) : k \in DOMAIN mockCourses},
              isLoading : BOOLEAN, error : DetailErrors] : UseCourseReturns(r)

SpecDetailPage == InitDetailPage /\ [][NextDetailPage]_vars

\* Calls of cn on one argument list.
InitCnRun ==
    /\ InitCalls /\ InitScan /\ InitRoute /\ InitUI /\ InitDetail
    /\ \E args \in ArgLists : cnRun = NewCnRun(args)

NextCn == CallCn \/ CallCnInner \/ CallCnOuter

SpecCn == InitCnRun /\ [][NextCn]_vars

(***************************************************************************)
(* Properties.                                                             *)
(***************************************************************************)
Resolved(i) == i \in DOMAIN calls /\ calls[i].state = "resolved"
ResolvedGetCourses(i) == Resolved(i) /\ calls[i].kind = "getCourses"

\* The records of a list whose level is exactly the given string, in list order.
RECURSIVE KeepLevel(_, _)
KeepLevel(list, level) ==
    IF list = <<>> THEN <<>>
    ELSE (IF Head(list).level = level THEN <<Head(list)>> ELSE <<>>)
         \o KeepLevel(Tail(list), level)

\* The first n records of a list, all of them when the list is shorter.
FirstN(list, n) == [i \in 1..(IF n < Len(list) THEN n ELSE Len(list)) |-> list[i]]

GivenLevel(c) == OptChain(c.params, "level")
GivenLimit(c) == OptChain(c.params, "limit")
LimitAbsentOrPositive(c) == GivenLimit(c) = None \/ GivenLimit(c)[1] > 0

\* C1 as stated: whenever a level is given, any string at all, the result is the
\* mock list restricted to the records of exactly that level and then cut to the
\* limit (limit absent or positive).
C1_AnyLevelFilters ==
    \A i \in DOMAIN calls :
        ResolvedGetCourses(i) /\ LimitAbsentOrPositive(calls[i]) =>
            LET byLevel == IF GivenLevel(calls[i]) = None THEN mockCourses
                           ELSE KeepLevel(mockCourses, GivenLevel(calls[i])[1])
            IN calls[i].value =
                   (IF GivenLimit(calls[i]) = None THEN byLevel
                    ELSE FirstN(byLevel, GivenLimit(calls[i])[1]))

\* C1, amended: for level absent or any string and limit absent or positive,
\* getCourses resolves to the mock list in its order, restricted to the records of
\* exactly the given level when the level is a non-empty string (an empty level
\* counts as absent; an unmatched one yields the empty list), then cut to the first
\* limit records; the filter comes before the limit, and a limit larger than the
\* filtered list returns all of it.
C1_FilterThenLimit ==
    \A i \in DOMAIN calls :
        ResolvedGetCourses(i) /\ LimitAbsentOrPositive(calls[i]) =>
            LET byLevel == IF GivenLevel(calls[i]) \in {None, Some("")} THEN mockCourses
                           ELSE KeepLevel(mockCourses, GivenLevel(calls[i])[1])
            IN calls[i].value =
                   (IF GivenLimit(calls[i]) = None THEN byLevel
                    ELSE FirstN(byLevel, GivenLimit(calls[i])[1]))

C1_Witness ==
    \E i \in DOMAIN calls :
        /\ ResolvedGetCourses(i)
        /\ GivenLevel(calls[i]) = Some("intermediate")
        /\ GivenLimit(calls[i]) = Some(1)
        /\ calls[i].value = <<mockCourses[3]>>

\* C2: whenever a limit is given, 0 included, the resolved list has at most limit
\* records.
C2_AtMostLimit ==
    \A i \in DOMAIN calls :
        ResolvedGetCourses(i) /\ GivenLimit(calls[i]) # None =>
            Len(calls[i].value) <= GivenLimit(calls[i])[1]

(***************************************************************************)
(* The guide's layer rules, read off the import statement under the scan.  *)
(***************************************************************************)
Scanning(corpus) == scanEdge # NoEdge /\ scanEdge.file.corpus = corpus
FromLayer == LayerOf(scanEdge.file.path)
Target == Resolve(scanEdge)
ToLayer == LayerOf(Target)

\* src/app/ -> views/ + shared/, besides packages and the app's own stylesheet.
AppImportAllowed ==
    \/ scanEdge.kind = "package"
    \/ ToLayer \in {"views", "shared"}
    \/ Target = <<"app", "globals.css">>

\* C3: in the example application every import between two layers goes from an
\* upper layer to a strictly lower one (app > views > widgets > features > entities
\* > shared), so shared/ imports from no other layer.
C3_ImportsGoDownward ==
    Scanning("example") /\ ToLayer # "external" =>
        /\ FromLayer # ToLayer => Rank(FromLayer) > Rank(ToLayer)
        /\ FromLayer = "shared" => ToLayer = "shared"

C3_Witness ==
    /\ Scanning("example")
    /\ scanEdge.file = CourseListFile
    /\ FromLayer = "features"
    /\ ToLayer = "entities"

\* C8: every file of the example's app/ layer imports only from views/ and shared/,
\* besides external libraries and its own stylesheet.
C8_AppImportsViewsAndShared ==
    Scanning("example") /\ FromLayer = "app" => AppImportAllowed

C8_Witness ==
    /\ Scanning("example")
    /\ scanEdge.file = DashboardRouteFile
    /\ Target = <<"views", "dashboard">>

\* C9: every app/ file of the guide's own snippets imports only from views/ and
\* shared/, never from widgets/, features/ or entities/.
C9_GuideAppImportsViewsAndShared ==
    Scanning("guide") /\ FromLayer = "app" => AppImportAllowed

\* C10: in the example application an import into a slice of views/, widgets/,
\* features/ or entities/ from outside that slice targets the slice root (its public
\* API); only files of the slice itself import below the root.
C10_CrossSliceImportsUsePublicApi ==
    Scanning("example") /\ SliceOf(Target) # <<>>
        /\ SliceOf(Target) # SliceOf(scanEdge.file.path)
        => Len(Target) = 2

C10_Witness ==
    /\ Scanning("example")
    /\ scanEdge.file = HomePageFile
    /\ SliceOf(scanEdge.file.path) = <<"views", "home">>
    /\ Target = <<"features", "course-list">>

\* C4: with any number of calls in flight, completing in any order, each call
\* resolves to the value its own arguments determine: a step that resolves one call
\* gives it that value whatever the other calls are, touches no other call, and a
\* resolved call keeps its value.
C4_EachCallItsOwnValue ==
    [][\A i \in DOMAIN calls :
          /\ i \in DOMAIN calls'
          /\ calls[i].state = "resolved" => calls'[i] = calls[i]
          /\ calls[i].state # "resolved" /\ calls'[i].state = "resolved" =>
                /\ calls'[i].value = ReturnValue(NewCall(calls[i].kind, calls[i].params,
                                                         calls[i].id, "caller"))
                /\ \A j \in DOMAIN calls \ {i} : calls'[j] = calls[j]]_vars

\* Two calls with different arguments, the later one resolved before the earlier.
C4_Witness ==
    /\ Len(calls) >= 2
    /\ calls[1].state = "sleeping"
    /\ calls[2].state = "resolved"
    /\ calls[1].params # calls[2].params
    /\ calls[2].value = <<mockCourses[2]>>

\* The records of the mock literal.
MockRecords == {mockCourses[i] : i \in DOMAIN mockCourses}
RecordsOf(list) == {list[i] : i \in DOMAIN list}

\* C5: course records are never mutated: every record a getCourses or getCourse
\* call returned and every record in CourseList's courses state (the records it
\* passes to CourseCard) equals one of the mock literals field for field.
C5_RecordsAreMockLiterals ==
    /\ \A i \in DOMAIN calls : RecordsOf(calls[i].value) \subseteq MockRecords
    /\ RecordsOf(courses) \subseteq MockRecords

C5_Witness ==
    /\ ~isLoading
    /\ courses = mockCourses
    /\ \E i \in DOMAIN calls :
          Resolved(i) /\ calls[i].kind = "getCourse" /\ calls[i].value = Some(mockCourses[2])

\* C6: every getCourses and getCourse call, once started, eventually resolves with
\* a value; it never rejects, it resolves only after its timer has fired, and no
\* step cancels it or takes it back.
C6_EveryCallResolves ==
    /\ \A i \in 1..MaxCalls : (i \in DOMAIN calls) ~> Resolved(i)
    /\ [](\A i \in DOMAIN calls : calls[i].state \in {"sleeping", "woken", "resolved"})
    /\ [][\A i \in DOMAIN calls :
             /\ i \in DOMAIN calls'
             /\ calls'[i].state = "resolved" => calls[i].state \in {"woken", "resolved"}
             /\ calls[i].state = "woken" => calls'[i].state \in {"woken", "resolved"}
             /\ calls[i].state = "resolved" => calls'[i].state = "resolved"]_vars

C6_Witness ==
    /\ Len(calls) = MaxCalls
    /\ \A i \in DOMAIN calls : Resolved(i)
    /\ \E i, j \in DOMAIN calls : calls[i].kind = "getCourses" /\ calls[j].kind = "getCourse"

\* GET has answered a request whose try block ran to its end without a throw.
RouteSucceeded ==
    /\ routeReq.baseUrlOk
    /\ upstream.reply # None
    /\ ResponseOk(upstream.reply[1])
    /\ upstream.reply[1].body # None

\* C7: the documented GET answers with the JSON course list when getCourseList
\* succeeds, and with {error: 'Failed to fetch courses'} and status 500 whenever
\* anything in the handler throws (the upstream response not ok included); it never
\* lets an exception out to its caller.
C7_GetAnswersListOr500 ==
    /\ routePc # "threw"
    /\ routePc = "done" =>
          IF RouteSucceeded
          THEN response = [status |-> 200, body |-> <<"json", upstream.reply[1].body[1]>>]
          ELSE response = [status |-> 500, body |-> <<"error", "Failed to fetch courses">>]
    /\ routePc # "done" => response = NoResponse

\* The upstream answered 404 and GET turned the exception into the 500 body.
C7_Witness ==
    /\ routePc = "done"
    /\ upstream.reply # None
    /\ upstream.reply[1].status = 404
    /\ response.status = 500
    /\ response.body = <<"error", "Failed to fetch courses">>

\* C11: in the example application no slice imports another slice of its own
\* layer: an import from a file of a slice into the same layer stays in that slice.
C11_NoImportAcrossSlicesOfALayer ==
    Scanning("example") /\ SliceOf(scanEdge.file.path) # <<>> /\ ToLayer = FromLayer
        => SliceOf(Target) = SliceOf(scanEdge.file.path)

C11_Witness ==
    /\ Scanning("example")
    /\ scanEdge.file = GetCoursesFile
    /\ FromLayer = "entities"
    /\ Target = <<"entities", "course", "model", "types">>

\* ---- EnrollmentButton ----

\* How often instance id has completed an enrollment: its lines in the log.
Completions(id) == Cardinality({k \in DOMAIN enrollLog : enrollLog[k] = id})

Idle(b) == ~b.isEnrolling /\ ~b.isEnrolled
Enrolling(b) == b.isEnrolling /\ ~b.isEnrolled
Enrolled(b) == ~b.isEnrolling /\ b.isEnrolled

\* C12: while an instance is not enrolled, its button is disabled and labelled
\* 'Enrolling...' exactly while an enrollment call is in flight (isEnrolling is
\* true), and enabled and labelled 'Enroll Now' exactly while none is.
C12_ButtonShowsCallInFlight ==
    \A id \in ButtonIds :
        LET b == buttons[id]
            r == EnrollmentButtonRender(b)
        IN  ~b.isEnrolled =>
                /\ b.isEnrolling <=> b.pending > 0
                /\ (r.disabled /\ r.label = "Enrolling...") <=> b.pending > 0
                /\ (~r.disabled /\ r.label = "Enroll Now") <=> b.pending = 0
                /\ r.onClick

\* One instance waits for its timer and shows the disabled button, the other is
\* still idle and shows the enabled one.
C12_Witness ==
    /\ buttons["1"].pending = 1
    /\ Enrolling(buttons["1"])
    /\ EnrollmentButtonRender(buttons["1"]).disabled
    /\ Idle(buttons["2"])
    /\ ~EnrollmentButtonRender(buttons["2"]).disabled

\* ---- Pages ----

\* The positions of the elements of a given type among a page's children.
Positions(render, type) == {k \in DOMAIN render : render[k].type = type}

C14_AtMostOneEnrollment ==
    \A id \in ButtonIds :
        /\ buttons[id].pending <= 1
        /\ Completions(id) <= 1
        /\ buttons[id].pending + Completions(id) <= 1
        /\ buttons[id].isEnrolled <=> Completions(id) = 1
        /\ buttons[id].pending + Completions(id) <= buttons[id].clicks

\* An instance that was clicked again, while in flight or after it enrolled, and
\* completed once.
C14_Witness ==
    \E id \in ButtonIds :
        /\ buttons[id].clicks >= 2
        /\ buttons[id].pending = 0
        /\ Completions(id) = 1

\* The steps an instance may take: none, Idle to Enrolling on a click, Enrolling
\* to Enrolled when its timer fires (the completion is logged).
EnrollmentStep(id) ==
    LET b == buttons[id]
        c == buttons'[id]
    IN  \/ c.isEnrolling = b.isEnrolling /\ c.isEnrolled = b.isEnrolled
        \/ /\ Idle(b) /\ Enrolling(c)
           /\ c.clicks = b.clicks + 1
           /\ enrollLog' = enrollLog
        \/ /\ Enrolling(b) /\ Enrolled(c)
           /\ c.clicks = b.clicks
           /\ enrollLog' = Append(enrollLog, id)

\* C15: every instance is always Idle, Enrolling or Enrolled and never has both
\* flags true; it starts Idle; its only transitions are Idle to Enrolling on a
\* click and Enrolling to Enrolled when the timer fires; Enrolled is absorbing,
\* with the button disabled and labelled with the check mark and 'Enrolled'.
C15_IdleEnrollingEnrolled ==
    /\ \A id \in ButtonIds : Idle(buttons[id])
    /\ [](\A id \in ButtonIds :
             /\ Idle(buttons[id]) \/ Enrolling(buttons[id]) \/ Enrolled(buttons[id])
             /\ ~(buttons[id].isEnrolling /\ buttons[id].isEnrolled)
             /\ Enrolled(buttons[id]) =>
                   /\ EnrollmentButtonRender(buttons[id]).disabled
                   /\ EnrollmentButtonRender(buttons[id]).label = EnrolledLabel
                   /\ ~ClickDelivered(EnrollmentButtonRender(buttons[id])))
    /\ [][\A id \in ButtonIds :
             /\ EnrollmentStep(id)
             /\ Enrolled(buttons[id]) => Enrolled(buttons'[id])]_vars

\* One instance is Enrolled and was clicked after that, the other is Enrolling.
C15_Witness ==
    /\ Enrolled(buttons["1"])
    /\ buttons["1"].clicks = 2
    /\ EnrollmentButtonRender(buttons["1"]).label = EnrolledLabel
    /\ Enrolling(buttons["2"])

\* C16: once an enabled button has been clicked (the instance is Enrolling), the
\* instance is eventually Enrolled, given that its timer fires.
C16_ClickLeadsToEnrolled ==
    \A id \in ButtonIds : Enrolling(buttons[id]) ~> Enrolled(buttons[id])

\* Every instance was clicked once and is Enrolled.
C16_Witness ==
    /\ \A id \in ButtonIds : Enrolled(buttons[id]) /\ buttons[id].clicks = 1
    /\ Len(enrollLog) = Cardinality(ButtonIds)

\* ---- Header ----

\* A step is a press of the toggle button, or a click on a link of the menu.
TogglePressed == presses' = presses + 1 /\ lastEvent' = "toggle"
LinkClicked == presses' = 0 /\ \E k \in DOMAIN MobileLinks : lastEvent' = MobileLinks[k]

\* C18: the menu is closed initially; each press of the toggle button flips
\* isMobileMenuOpen, so two presses in a row restore it; the mobile navigation is
\* rendered exactly when isMobileMenuOpen is true; nothing but the toggle button
\* and the links of the menu changes the flag.
C18_ToggleFlipsMenu ==
    /\ ~isMobileMenuOpen
    /\ [](PageRender[1].mobileNav # <<>> <=> isMobileMenuOpen)
    /\ [][TogglePressed => isMobileMenuOpen' = ~isMobileMenuOpen]_vars
    /\ [][isMobileMenuOpen' # isMobileMenuOpen =>
             TogglePressed \/ (LinkClicked /\ presses > 0)]_vars

\* The toggle button was pressed three times and the menu is open and rendered.
C18_Witness ==
    /\ presses = 3
    /\ lastEvent = "toggle"
    /\ isMobileMenuOpen
    /\ PageRender[1].mobileNav = MobileLinks
    /\ PageRender[1].icon = "close"

\* C19: a click on a link of the menu leaves the menu closed, and is possible
\* only while the menu is open; so the menu is open exactly when the number of
\* presses of the toggle button since the last link click (or since mount) is odd.
C19_OpenIffOddPresses ==
    /\ [](isMobileMenuOpen <=> presses % 2 = 1)
    /\ [][LinkClicked /\ lastEvent' # lastEvent => isMobileMenuOpen /\ ~isMobileMenuOpen']_vars
    /\ [](lastEvent \notin {"mount", "toggle"} => ~isMobileMenuOpen /\ presses = 0)

\* A link of the open menu was clicked: the menu is closed and no press counted.
C19_Witness ==
    /\ lastEvent = "Dashboard"
    /\ presses = 0
    /\ ~isMobileMenuOpen
    /\ PageRender[1].mobileNav = <<>>

\* ---- CourseList ----

\* A load of CourseList has come back: its getCourses({ limit: 6 }) call resolved.
LoadResolved == \E i \in Loads : Resolved(i)

\* C17: CourseList starts loading with an empty list and shows the skeleton as
\* long as no load has resolved; once one has, it shows exactly the three mock
\* courses in their order, one card per distinct id, and never goes back to
\* loading; isLoading implies that courses is empty, also when the load effect
\* was started more than once.
C17_LoadingThenTheMockCourses ==
    /\ isLoading = TRUE
    /\ courses = <<>>
    /\ [](/\ isLoading => courses = <<>>
          /\ isLoading <=> ~LoadResolved
          /\ \A i \in Loads : calls[i].params = CourseListParams
          /\ isLoading =>
                /\ CourseListRender(isLoading, courses).skeletons = 3
                /\ CourseListRender(isLoading, courses).cards = <<>>
          /\ ~isLoading =>
                /\ courses = mockCourses
                /\ CourseListRender(isLoading, courses).skeletons = 0
                /\ CourseListRender(isLoading, courses).records = mockCourses
                /\ CourseListRender(isLoading, courses).cards = <<"1", "2", "3">>
                /\ \A i \in Loads : Resolved(i) => calls[i].value = courses)
    /\ [][~isLoading => ~isLoading' /\ courses' = courses]_vars

\* The effect ran twice; one load has resolved and the list is shown while the
\* other load is still under way.
C17_Witness ==
    /\ Cardinality(Loads) = 2
    /\ \E i, j \in Loads : Resolved(i) /\ ~Resolved(j)
    /\ ~isLoading
    /\ CourseListRender(isLoading, courses).cards = <<"1", "2", "3">>

\* ---- category ----

\* The parameters of a call with the category replaced.
WithCategory(c, category) ==
    Some([level |-> GivenLevel(c), limit |-> GivenLimit(c), category |-> category])

\* C20: the category parameter has no effect on getCourses: a call returns what
\* it would return with any other category, or with none.
C20_CategoryHasNoEffect ==
    \A i \in DOMAIN calls :
        ResolvedGetCourses(i) =>
            \A category \in Categories \cup {Some(""), Some("backend")} :
                calls[i].value = getCoursesValue(WithCategory(calls[i], category))

\* A call with a category and a level returned the records of that level.
C20_Witness ==
    \E i \in DOMAIN calls :
        /\ ResolvedGetCourses(i)
        /\ OptChain(calls[i].params, "category") = Some("frontend")
        /\ GivenLevel(calls[i]) = Some("beginner")
        /\ calls[i].value = <<mockCourses[1]>>

\* ---- getCourse ----

\* The positions of the mock list whose record has the given id.
Matches(id) == {k \in DOMAIN mockCourses : mockCourses[k].id = id}

\* C21: getCourse(id) resolves to the one record of the full, unfiltered mock
\* list whose id equals id exactly, and to null when no record has that id; the
\* ids of the mock list are pairwise distinct, so list order plays no part.
C21_GetCourseFindsById ==
    /\ \A j, k \in DOMAIN mockCourses : j # k => mockCourses[j].id # mockCourses[k].id
    /\ \A i \in DOMAIN calls :
          Resolved(i) /\ calls[i].kind = "getCourse" =>
              /\ Matches(calls[i].id) = {} => calls[i].value = None
              /\ Matches(calls[i].id) # {} =>
                    /\ Cardinality(Matches(calls[i].id)) = 1
                    /\ \A k \in Matches(calls[i].id) : calls[i].value = Some(mockCourses[k])

\* getCourse('3') returned the last record of the mock list.
C21_Witness ==
    /\ Len(calls) = 1
    /\ Resolved(1)
    /\ calls[1].kind = "getCourse"
    /\ calls[1].id = "3"
    /\ calls[1].value = Some(mockCourses[3])

\* ---- getCourseList ----

TruthyStrings(args) ==
    LET truthy == SelectSeq(args, ToBoolean)
    IN  [i \in 1..Len(truthy) |-> StringOf(truthy[i])]

\* The first n of some strings, written one after another with one space
\* between neighbours.
RECURSIVE Spaced(_, _)
Spaced(strings, n) ==
    IF n = 0 THEN <<>>
    ELSE IF n = 1 THEN strings[1]
    ELSE Spaced(strings, n - 1) \o <<" ">> \o strings[n]

\* C24: cn returns the truthy arguments in argument order joined by single
\* spaces; falsy arguments contribute nothing, so cn of only falsy arguments is
\* the empty string; and nesting does not change the result: cn(cn(a, b), c)
\* equals cn(a, b, c).
C24_CnJoinsTruthyArguments ==
    /\ cnRun.flat # None =>
          /\ cnRun.flat[1] = Spaced(TruthyStrings(cnRun.args), Len(TruthyStrings(cnRun.args)))
          /\ (\A i \in DOMAIN cnRun.args : ~ToBoolean(cnRun.args[i])) => cnRun.flat[1] = <<>>
    /\ cnRun.flat # None /\ cnRun.nested # None => cnRun.nested = cnRun.flat

\* cn('a', null, true) and cn(cn('a', null), true) both returned 'a true'.
C24_Witness ==
    /\ cnRun.args = <<Str(<<"a">>), Null, Bool(TRUE)>>
    /\ cnRun.flat = Some(<<"a", " ", "t", "r", "u", "e">>)
    /\ cnRun.nested = cnRun.flat

====
